---- MODULE Spec2Model ----
(***************************************************************************)
(* Model of src/src/object.rs of lazy_activitypub: Link, UrlReference,     *)
(* Object and ObjectReference, their serde encoding and decoding, and      *)
(* their accessors.                                                        *)
(*                                                                         *)
(* The types are immutable values and the operations pure functions, so    *)
(* the state machine is a client of the library: it decodes a wire value   *)
(* or constructs a value, calls accessors on it, encodes it and decodes    *)
(* the encoding again.                                                     *)
(***************************************************************************)
EXTENDS Integers, Sequences, FiniteSets

VARIABLES
    more_properties, \* the cargo feature "more_properties" of this build
    wire,            \* the JSON value last decoded from, or encoded to
    val,             \* the value the client holds
    src,             \* the Object that `wire` is the encoding of, if any
    call             \* the last accessor call: operation, argument, result

vars == <<more_properties, wire, val, src, call>>

\* Longest JSON array and longest Vec the model builds.
MaxLen == 2

----------------------------------------------------------------------------
(* Option<T> and Result<T, E>                                              *)

None == [some |-> FALSE]
Some(v) == [some |-> TRUE, v |-> v]

Err == [ok |-> FALSE]
Ok(v) == [ok |-> TRUE, v |-> v]

\* Sequences over S of length 0..n.
SeqUpTo(S, n) == UNION {[1..m -> S] : m \in 0..n}

----------------------------------------------------------------------------
(* JSON values, as serde buffers them for an untagged enum                 *)

JStr(s) == [k |-> "str", s |-> s]
JNum == [k |-> "num", s |-> "42"]
JNull == [k |-> "null", s |-> ""]
\* A key that the map does not hold.
JAbsent == [k |-> "absent", s |-> ""]
\* A JSON object seen as a link: the keys Link and Entity read; other keys
\* are ignored by both (neither denies unknown fields).
JObj(type, context, href) ==
    [k |-> "obj", type |-> type, context |-> context, href |-> href]
JArr(items) == [k |-> "arr", items |-> items]

\* Strings on the wire: two that are no URL, two normalised absolute URLs and
\* one absolute URL that url::Url::parse normalises.
Strings == {"", "nope", "http://a/", "HTTP://A", "https://b/x"}

\* url::Url values, named by their serialisation (Url::as_str).
Urls == {"http://a/", "https://b/x"}

\* url::Url::parse: lower-cases scheme and host and adds the root path;
\* the empty string and a string without scheme are
\* ParseError::RelativeUrlWithoutBase.
Url_parse(s) ==
    IF s \in {"http://a/", "HTTP://A"} THEN Ok("http://a/")
    ELSE IF s = "https://b/x" THEN Ok("https://b/x")
    ELSE Err

\* <url::Url as Deserialize>: a string that parses.
Url_deserialize(j) ==
    IF j.k = "str" THEN Url_parse(j.s) ELSE Err

\* <url::Url as Serialize>: the URL's text.
Url_serialize(u) == JStr(u)

----------------------------------------------------------------------------
(* crate::entity: Entity and EntityType (outside src/)                     *)

EntityTypes == {"Link", "Note"}
Contexts == {"ctx"}

Entities == [object_type : EntityTypes, context : {None} \cup {Some(c) : c \in Contexts}]

\* Entity::new(entity_type): the type tag, no context.
Entity_new(entity_type) == [object_type |-> entity_type, context |-> None]

\* Entity's Deserialize: the type tag is mandatory, the context optional.
Entity_deserialize(type, context) ==
    IF type.k = "str" /\ type.s \in EntityTypes
    THEN IF context.k \in {"absent", "null"}
         THEN Ok([object_type |-> type.s, context |-> None])
         ELSE IF context.k = "str" /\ context.s \in Contexts
         THEN Ok([object_type |-> type.s, context |-> Some(context.s)])
         ELSE Err
    ELSE Err

\* Entity's Serialize: the type tag, and the context when there is one.
Entity_type_serialize(e) == JStr(e.object_type)
Entity_context_serialize(e) ==
    IF e.context.some THEN JStr(e.context.v) ELSE JAbsent

----------------------------------------------------------------------------
(* Link                                                                    *)

Links == [entity : Entities, href : Urls]

\* #[derive(Deserialize)] with a flattened field: only a map is accepted,
\* `href` is mandatory, and the remaining keys go to Entity.
Link_deserialize(j) ==
    IF j.k = "obj"
    THEN LET href == Url_deserialize(j.href)
             entity == Entity_deserialize(j.type, j.context)
         IN IF href.ok /\ entity.ok
            THEN Ok([entity |-> entity.v, href |-> href.v])
            ELSE Err
    ELSE Err

\* #[derive(Serialize)]: a map of the entity's keys and `href`.
Link_serialize(l) ==
    JObj(Entity_type_serialize(l.entity), Entity_context_serialize(l.entity),
         Url_serialize(l.href))

----------------------------------------------------------------------------
(* UrlReference                                                            *)

UrlReference_Url(u) == [var |-> "Url", url |-> u]
UrlReference_Link(l) == [var |-> "Link", link |-> l]
UrlReference_LinkList(ls) == [var |-> "LinkList", links |-> ls]
UrlReference_UrlList(us) == [var |-> "UrlList", urls |-> us]
UrlReference_Invalid(s) == [var |-> "Invalid", raw |-> s]

\* Every UrlReference a client can build (the variants are public).
UrlReferences ==
    {UrlReference_Url(u) : u \in Urls}
    \cup {UrlReference_Link(l) : l \in Links}
    \cup {UrlReference_LinkList(ls) : ls \in SeqUpTo(Links, MaxLen)}
    \cup {UrlReference_UrlList(us) : us \in SeqUpTo(Urls, MaxLen)}
    \cup {UrlReference_Invalid(s) : s \in Strings}

\* One variant's attempt on the buffered value.
TryUrl(j) ==
    LET u == Url_deserialize(j)
    IN IF u.ok THEN Ok(UrlReference_Url(u.v)) ELSE Err

TryLink(j) ==
    LET l == Link_deserialize(j)
    IN IF l.ok THEN Ok(UrlReference_Link(l.v)) ELSE Err

TryLinkList(j) ==
    IF j.k = "arr" /\ \A i \in 1..Len(j.items) : Link_deserialize(j.items[i]).ok
    THEN Ok(UrlReference_LinkList(
            [i \in 1..Len(j.items) |-> Link_deserialize(j.items[i]).v]))
    ELSE Err

TryUrlList(j) ==
    IF j.k = "arr" /\ \A i \in 1..Len(j.items) : Url_deserialize(j.items[i]).ok
    THEN Ok(UrlReference_UrlList(
            [i \in 1..Len(j.items) |-> Url_deserialize(j.items[i]).v]))
    ELSE Err

\* A fallback that keeps no text.
TryInvalid_Empty(j) ==
    IF j.k = "str" THEN Ok(UrlReference_Invalid("")) ELSE Err

TryInvalid(j) ==
    IF j.k = "str" THEN Ok(UrlReference_Invalid(j.s)) ELSE Err

\* The variants in declaration order.
Variants == <<"Url", "Link", "LinkList", "UrlList", "Invalid">>

Try(variant, j) ==
    CASE variant = "Url" -> TryUrl(j)
      [] variant = "Link" -> TryLink(j)
      [] variant = "LinkList" -> TryLinkList(j)
      [] variant = "UrlList" -> TryUrlList(j)
      [] variant = "Invalid" -> TryInvalid(j)

\* A decoder that tries UrlList before LinkList.
UrlReference_deserialize_UrlListFirst(j) ==
    IF TryUrl(j).ok THEN TryUrl(j)
    ELSE IF TryLink(j).ok THEN TryLink(j)
    ELSE IF TryUrlList(j).ok THEN TryUrlList(j)
    ELSE IF TryLinkList(j).ok THEN TryLinkList(j)
    ELSE TryInvalid(j)

\* A decoder that tries the raw-string fallback first.
UrlReference_deserialize_InvalidFirst(j) ==
    IF TryInvalid(j).ok THEN TryInvalid(j)
    ELSE IF TryUrl(j).ok THEN TryUrl(j)
    ELSE IF TryLink(j).ok THEN TryLink(j)
    ELSE IF TryLinkList(j).ok THEN TryLinkList(j)
    ELSE TryUrlList(j)

\* #[derive(Deserialize)] #[serde(untagged)]: each variant in declaration
\* order on the buffered value, the first success is the result, and no
\* success is the error "data did not match any variant".
UrlReference_deserialize(j) ==
    IF TryUrl(j).ok THEN TryUrl(j)
    ELSE IF TryLink(j).ok THEN TryLink(j)
    ELSE IF TryLinkList(j).ok THEN TryLinkList(j)
    ELSE IF TryUrlList(j).ok THEN TryUrlList(j)
    ELSE IF TryInvalid(j).ok THEN TryInvalid(j)
    ELSE Err

\* An encoder that writes every list as its URLs.
UrlReference_serialize_Hrefs(r) ==
    CASE r.var = "Url" -> Url_serialize(r.url)
      [] r.var = "Link" -> Link_serialize(r.link)
      [] r.var = "LinkList" ->
            JArr([i \in 1..Len(r.links) |-> Url_serialize(r.links[i].href)])
      [] r.var = "UrlList" ->
            JArr([i \in 1..Len(r.urls) |-> Url_serialize(r.urls[i])])
      [] r.var = "Invalid" -> JStr(r.raw)

\* #[derive(Serialize)] #[serde(untagged)]: the active variant's content.
UrlReference_serialize(r) ==
    CASE r.var = "Url" -> Url_serialize(r.url)
      [] r.var = "Link" -> Link_serialize(r.link)
      [] r.var = "LinkList" ->
            JArr([i \in 1..Len(r.links) |-> Link_serialize(r.links[i])])
      [] r.var = "UrlList" ->
            JArr([i \in 1..Len(r.urls) |-> Url_serialize(r.urls[i])])
      [] r.var = "Invalid" -> JStr(r.raw)

\* as_vec with the list variants cut to their first element.
UrlReference_as_vec_FirstOnly(r) ==
    CASE r.var = "Url" -> <<r.url>>
      [] r.var = "Link" -> <<r.link.href>>
      [] r.var = "LinkList" ->
            IF r.links = <<>> THEN <<>> ELSE <<r.links[1].href>>
      [] r.var = "UrlList" -> IF r.urls = <<>> THEN <<>> ELSE <<r.urls[1]>>
      [] r.var = "Invalid" -> <<>>

\* as_vec with the links' hrefs collected in reverse.
UrlReference_as_vec_Reversed(r) ==
    CASE r.var = "Url" -> <<r.url>>
      [] r.var = "Link" -> <<r.link.href>>
      [] r.var = "LinkList" ->
            [i \in 1..Len(r.links) |-> r.links[Len(r.links) + 1 - i].href]
      [] r.var = "UrlList" -> r.urls
      [] r.var = "Invalid" -> <<>>

UrlReference_as_vec(r) ==
    CASE r.var = "Url" -> <<r.url>>
      [] r.var = "Link" -> <<r.link.href>>
      [] r.var = "LinkList" -> [i \in 1..Len(r.links) |-> r.links[i].href]
      [] r.var = "UrlList" -> r.urls
      [] r.var = "Invalid" -> <<>>

\* any_url that takes the Invalid variant's text for a URL.
UrlReference_any_url_RawText(r) ==
    IF r.var = "Invalid" THEN Some(r.raw)
    ELSE IF UrlReference_as_vec(r) = <<>> THEN None
    ELSE Some(UrlReference_as_vec(r)[1])

\* self.as_vec().into_iter().next()
UrlReference_any_url(r) ==
    LET v == UrlReference_as_vec(r)
    IN IF v = <<>> THEN None ELSE Some(v[1])

----------------------------------------------------------------------------
(* crate::actor: CompoundActorReference (outside src/)                     *)

Actors == {"public", "alice"}

\* The addressees a reference names.
CompoundActorReferences == {<<a>> : a \in Actors}

\* CompoundActorReference::matches(pattern)
CompoundActorReference_matches(reference, pattern) ==
    \E i \in 1..Len(reference) : reference[i] = pattern

CompoundActorReference_deserialize(j) ==
    IF j.k = "arr" /\ j.items # <<>>
       /\ \A i \in 1..Len(j.items) :
             j.items[i].k = "str" /\ j.items[i].s \in Actors
    THEN Ok([i \in 1..Len(j.items) |-> j.items[i].s])
    ELSE Err

CompoundActorReference_serialize(reference) ==
    JArr([i \in 1..Len(reference) |-> JStr(reference[i])])

----------------------------------------------------------------------------
(* Object                                                                  *)

\* The document of an Object: the keys Object and Entity read.
JDoc(type, context, id, name, url, to, cc) ==
    [k |-> "doc", type |-> type, context |-> context, id |-> id,
     name |-> name, url |-> url, to |-> to, cc |-> cc]

\* Option<T>'s Deserialize, for a field of a derived struct: a missing key
\* and null are None, any other value is Some of T's decoding or T's error.
Option_deserialize(j, r) ==
    IF j.k \in {"absent", "null"} THEN Ok(None)
    ELSE IF r.ok THEN Ok(Some(r.v)) ELSE Err

String_deserialize(j) == IF j.k = "str" THEN Ok(j.s) ELSE Err

\* #[derive(Deserialize)] of Object: `id` and the entity are mandatory, the
\* other fields optional; `cc` is a field under more_properties only, and
\* an ignored key otherwise.
Object_deserialize(feature, d) ==
    LET entity == Entity_deserialize(d.type, d.context)
        id == Url_deserialize(d.id)
        name == Option_deserialize(d.name, String_deserialize(d.name))
        url == Option_deserialize(d.url, UrlReference_deserialize(d.url))
        to == Option_deserialize(d.to, CompoundActorReference_deserialize(d.to))
        cc == IF feature
              THEN Option_deserialize(d.cc,
                                      CompoundActorReference_deserialize(d.cc))
              ELSE Ok(None)
    IN IF entity.ok /\ id.ok /\ name.ok /\ url.ok /\ to.ok /\ cc.ok
       THEN Ok([entity |-> entity.v, id |-> id.v, name |-> name.v,
                url |-> url.v, to |-> to.v, cc |-> cc.v])
       ELSE Err

\* #[derive(Serialize)] of Object, every optional field with
\* #[serde(skip_serializing_if = "Option::is_none")]: a None is left out.
Object_serialize(o) ==
    JDoc(Entity_type_serialize(o.entity), Entity_context_serialize(o.entity),
         Url_serialize(o.id),
         IF o.name.some THEN JStr(o.name.v) ELSE JAbsent,
         IF o.url.some THEN UrlReference_serialize(o.url.v) ELSE JAbsent,
         IF o.to.some THEN CompoundActorReference_serialize(o.to.v)
         ELSE JAbsent,
         IF o.cc.some THEN CompoundActorReference_serialize(o.cc.v)
         ELSE JAbsent)

\* A constructor that fills `url` with the identifier.
Object_new_with_entity_type_UrlFromId(entity_type, id) ==
    [entity |-> Entity_new(entity_type), id |-> id, name |-> None,
     url |-> Some(UrlReference_Url(id)), to |-> None, cc |-> None]

\* Object { entity, id, name: None, url: None, to: None }; the literal names
\* no `cc`, so it builds without more_properties only.
Object_new_with_entity(entity, id) ==
    [entity |-> entity, id |-> id, name |-> None, url |-> None, to |-> None,
     cc |-> None]

Object_new_with_entity_type(entity_type, id) ==
    [entity |-> Entity_new(entity_type), id |-> id, name |-> None,
     url |-> None, to |-> None, cc |-> None]

\* self.url.as_ref().and_then(|x| x.any_url())
Object_object_url(o) ==
    IF o.url.some THEN UrlReference_any_url(o.url.v) ELSE None

\* matches that also looks at `cc`.
Object_matches_WithCc(o, pattern) ==
    \/ o.to.some /\ CompoundActorReference_matches(o.to.v, pattern)
    \/ o.cc.some /\ CompoundActorReference_matches(o.cc.v, pattern)

\* self.to.as_ref().map(|reference| reference.matches(pattern))
\*     .unwrap_or(false)
Object_matches(o, pattern) ==
    IF o.to.some THEN CompoundActorReference_matches(o.to.v, pattern)
    ELSE FALSE

\* impl ObjectTrait for Object
Object_context(o) == o.entity.context
Object_object_id(o) == o.id
Object_entity_type(o) == o.entity.object_type

----------------------------------------------------------------------------
(* ObjectReference                                                         *)

ObjectReference_Object(o) == [var |-> "Object", object |-> o]
ObjectReference_Url(u) == [var |-> "Url", url |-> u]

\* object_id that answers with the embedded object's `url`.
ObjectReference_object_id_ObjectUrl(r) ==
    CASE r.var = "Object" ->
            IF Object_object_url(r.object).some
            THEN Object_object_url(r.object).v ELSE r.object.id
      [] r.var = "Url" -> r.url

ObjectReference_object_id(r) ==
    CASE r.var = "Object" -> r.object.id
      [] r.var = "Url" -> r.url

----------------------------------------------------------------------------
(* The values a client presents                                            *)

Scalars == {JStr(s) : s \in Strings} \cup {JNum, JNull}

\* JSON objects: links with and without a type tag and an href, the href
\* valid, empty or not a string.
WireObjects ==
    {JObj(type, JAbsent, href) :
        type \in {JAbsent, JStr("Link")},
        href \in {JAbsent, JNum, JStr(""), JStr("http://a/"), JStr("https://b/x")}}
    \cup {JObj(JStr("Note"), JStr("ctx"), JStr("HTTP://A"))}

Elements == Scalars \cup WireObjects

\* The JSON values decoded as a UrlReference.
JsonValues == Elements \cup {JArr(items) : items \in SeqUpTo(Elements, MaxLen)}

JTo(actor) == JArr(<<JStr(actor)>>)

\* The documents decoded as an Object: every `url` in a valid envelope, and
\* a few `url`s in every envelope.
Documents(feature) ==
    {JDoc(JStr("Note"), JAbsent, JStr("http://a/"), JAbsent, url, JAbsent, JAbsent) :
        url \in JsonValues \cup {JAbsent}}
    \cup {JDoc(type, context, id, name, url, to, cc) :
            type \in {JAbsent, JStr("Note")},
            context \in {JAbsent, JStr("ctx")},
            id \in {JAbsent, JStr(""), JStr("https://b/x")},
            name \in {JAbsent, JStr("name")},
            url \in {JAbsent, JStr(""), JNum},
            to \in {JAbsent, JNum, JTo("public")},
            cc \in IF feature THEN {JAbsent, JTo("public"), JTo("alice")}
                   ELSE {JAbsent, JTo("public")}}

Patterns == Actors

NoValue == [t |-> "none"]
Failed == [t |-> "error"]
AUrlReference(r) == [t |-> "UrlReference", r |-> r]
AnObject(o) == [t |-> "Object", o |-> o]
AnObjectReference(r) == [t |-> "ObjectReference", r |-> r]

NoCall == [op |-> "none"]
Call(op, arg, ret) == [op |-> op, arg |-> arg, ret |-> ret]

\* The calls that build the Object the client goes on to fill in and use:
\* the client assigns the optional fields in declaration order, once each,
\* before it reads the Object.
Builders ==
    {"new_with_entity_type", "new_with_entity", "Object::deserialize", "set"}

----------------------------------------------------------------------------
(* The client's steps                                                      *)

Init ==
    /\ more_properties \in BOOLEAN
    /\ wire = JAbsent
    /\ val = NoValue
    /\ src = None
    /\ call = NoCall

\* serde_json::from_value::<UrlReference>(j)
DecodeUrlReference ==
    /\ val = NoValue
    /\ \E j \in JsonValues :
        LET r == UrlReference_deserialize(j)
        IN /\ wire' = j
           /\ val' = IF r.ok THEN AUrlReference(r.v) ELSE Failed
           /\ call' = Call("UrlReference::deserialize", j, r)
    /\ src' = None
    /\ UNCHANGED more_properties

\* UrlReference::Url(..), ::Link(..), ::LinkList(..), ::UrlList(..),
\* ::Invalid(..)
NewUrlReference ==
    /\ val = NoValue
    /\ \E r \in UrlReferences : val' = AUrlReference(r)
    /\ wire' = JAbsent
    /\ src' = None
    /\ call' = NoCall
    /\ UNCHANGED more_properties

AsVec ==
    /\ val.t = "UrlReference"
    /\ call' = Call("as_vec", val.r, UrlReference_as_vec(val.r))
    /\ UNCHANGED <<more_properties, wire, val, src>>

AnyUrl ==
    /\ val.t = "UrlReference"
    /\ call' = Call("any_url", val.r, UrlReference_any_url(val.r))
    /\ UNCHANGED <<more_properties, wire, val, src>>

NewWithEntityType ==
    /\ ~more_properties
    /\ val = NoValue
    /\ \E entity_type \in EntityTypes, id \in Urls :
        /\ val' = AnObject(Object_new_with_entity_type(entity_type, id))
        /\ call' = Call("new_with_entity_type", <<entity_type, id>>, None)
    /\ wire' = JAbsent
    /\ src' = None
    /\ UNCHANGED more_properties

NewWithEntity ==
    /\ ~more_properties
    /\ val = NoValue
    /\ \E entity \in Entities, id \in Urls :
        /\ val' = AnObject(Object_new_with_entity(entity, id))
        /\ call' = Call("new_with_entity", <<entity, id>>, None)
    /\ wire' = JAbsent
    /\ src' = None
    /\ UNCHANGED more_properties

\* serde_json::from_value::<Object>(d)
DecodeObject ==
    /\ val = NoValue
    /\ \E d \in Documents(more_properties) :
        LET r == Object_deserialize(more_properties, d)
        IN /\ wire' = d
           /\ val' = IF r.ok THEN AnObject(r.v) ELSE Failed
           /\ call' = Call("Object::deserialize", d, r)
    /\ src' = None
    /\ UNCHANGED more_properties

\* object.url = Some(..): the field is public.
SetUrl ==
    /\ val.t = "Object"
    /\ call.op \in Builders
    /\ ~val.o.url.some /\ ~val.o.to.some /\ ~val.o.cc.some
    /\ \E r \in UrlReferences :
        val' = AnObject([val.o EXCEPT !.url = Some(r)])
    /\ wire' = JAbsent
    /\ src' = None
    /\ call' = Call("set", "url", None)
    /\ UNCHANGED more_properties

\* object.to = Some(..): the field is public.
SetTo ==
    /\ val.t = "Object"
    /\ call.op \in Builders
    /\ ~val.o.to.some /\ ~val.o.cc.some
    /\ \E r \in CompoundActorReferences :
        val' = AnObject([val.o EXCEPT !.to = Some(r)])
    /\ wire' = JAbsent
    /\ src' = None
    /\ call' = Call("set", "to", None)
    /\ UNCHANGED more_properties

\* object.cc = Some(..): the field is public, and exists under
\* more_properties.
SetCc ==
    /\ more_properties
    /\ val.t = "Object"
    /\ call.op \in Builders
    /\ ~val.o.cc.some
    /\ \E r \in CompoundActorReferences :
        val' = AnObject([val.o EXCEPT !.cc = Some(r)])
    /\ wire' = JAbsent
    /\ src' = None
    /\ call' = Call("set", "cc", None)
    /\ UNCHANGED more_properties

ObjectUrl ==
    /\ val.t = "Object"
    /\ call' = Call("object_url", val.o, Object_object_url(val.o))
    /\ UNCHANGED <<more_properties, wire, val, src>>

Matches ==
    /\ val.t = "Object"
    /\ \E pattern \in Patterns :
        call' = Call("matches", pattern, Object_matches(val.o, pattern))
    /\ UNCHANGED <<more_properties, wire, val, src>>

ObjectId ==
    /\ val.t = "Object"
    /\ call' = Call("object_id", val.o, Object_object_id(val.o))
    /\ UNCHANGED <<more_properties, wire, val, src>>

EntityType ==
    /\ val.t = "Object"
    /\ call' = Call("entity_type", val.o, Object_entity_type(val.o))
    /\ UNCHANGED <<more_properties, wire, val, src>>

Context ==
    /\ val.t = "Object"
    /\ call' = Call("context", val.o, Object_context(val.o))
    /\ UNCHANGED <<more_properties, wire, val, src>>

\* serde_json::to_value(&object)
EncodeObject ==
    /\ val.t = "Object"
    /\ wire' = Object_serialize(val.o)
    /\ src' = Some(val.o)
    /\ call' = Call("Object::serialize", val.o, Object_serialize(val.o))
    /\ UNCHANGED <<more_properties, val>>

\* serde_json::from_value::<Object>(..) of what EncodeObject produced
DecodeEncoded ==
    /\ src.some
    /\ call.op = "Object::serialize"
    /\ LET r == Object_deserialize(more_properties, wire)
       IN /\ val' = IF r.ok THEN AnObject(r.v) ELSE Failed
          /\ call' = Call("round_trip", wire, r)
    /\ UNCHANGED <<more_properties, wire, src>>

\* ObjectReference::Url(u)
NewReferenceUrl ==
    /\ val = NoValue
    /\ \E u \in Urls : val' = AnObjectReference(ObjectReference_Url(u))
    /\ wire' = JAbsent
    /\ src' = None
    /\ call' = NoCall
    /\ UNCHANGED more_properties

\* ObjectReference::Object(Box::new(object))
NewReferenceObject ==
    /\ val.t = "Object"
    /\ val' = AnObjectReference(ObjectReference_Object(val.o))
    /\ wire' = JAbsent
    /\ src' = None
    /\ call' = NoCall
    /\ UNCHANGED more_properties

ReferenceObjectId ==
    /\ val.t = "ObjectReference"
    /\ call' = Call("ObjectReference::object_id", val.r,
                    ObjectReference_object_id(val.r))
    /\ UNCHANGED <<more_properties, wire, val, src>>

Next ==
    \/ DecodeUrlReference
    \/ NewUrlReference
    \/ AsVec
    \/ AnyUrl
    \/ NewWithEntityType
    \/ NewWithEntity
    \/ DecodeObject
    \/ SetUrl
    \/ SetTo
    \/ SetCc
    \/ ObjectUrl
    \/ Matches
    \/ ObjectId
    \/ EntityType
    \/ Context
    \/ EncodeObject
    \/ DecodeEncoded
    \/ NewReferenceUrl
    \/ NewReferenceObject
    \/ ReferenceObjectId

Spec == Init /\ [][Next]_vars

----------------------------------------------------------------------------
(* Properties                                                              *)

\* The variants, by position in declaration order, that accept j.
Matching(j) == {i \in 1..Len(Variants) : Try(Variants[i], j).ok}

\* What a decoder that returns the first accepting variant returns for j.
IsFirstMatch(j, r) ==
    IF Matching(j) = {} THEN ~r.ok
    ELSE \E i \in Matching(j) :
            /\ \A n \in Matching(j) : i <= n
            /\ r = Try(Variants[i], j)

ValidLink(j) == Link_deserialize(j).ok

ValidLinks(j) ==
    j.k = "arr" /\ \A i \in 1..Len(j.items) : ValidLink(j.items[i])

\* No structured shape (URL, link, array of links, array of URLs) accepts j.
Unstructured(j) ==
    ~TryUrl(j).ok /\ ~TryLink(j).ok /\ ~TryLinkList(j).ok /\ ~TryUrlList(j).ok

\* Every field of the document d other than `url` decodes.
RestDecodes(d) ==
    /\ Entity_deserialize(d.type, d.context).ok
    /\ Url_deserialize(d.id).ok
    /\ Option_deserialize(d.name, String_deserialize(d.name)).ok
    /\ Option_deserialize(d.to, CompoundActorReference_deserialize(d.to)).ok
    /\ more_properties =>
          Option_deserialize(d.cc, CompoundActorReference_deserialize(d.cc)).ok

\* C1: decoding a value as a UrlReference, on its own or as the `url` of an
\* Object, yields what the first variant in the order Url, Link, LinkList,
\* UrlList, Invalid that accepts the value yields, and fails when none does.
C1_FirstMatchingVariantWins ==
    /\ call.op = "UrlReference::deserialize" => IsFirstMatch(call.arg, call.ret)
    /\ (call.op = "Object::deserialize" /\ call.ret.ok
            /\ call.arg.url.k \notin {"absent", "null"})
        => /\ call.ret.v.url.some
           /\ IsFirstMatch(call.arg.url, Ok(call.ret.v.url.v))

\* The empty array, which LinkList and UrlList both accept, was decoded
\* to LinkList.
C1_Witness ==
    /\ call.op = "UrlReference::deserialize"
    /\ call.arg = JArr(<<>>)
    /\ Cardinality(Matching(call.arg)) = 2
    /\ call.ret = Ok(UrlReference_LinkList(<<>>))

\* C2 as stated: whenever the `url` of a document matches no structured
\* shape and the rest of the document decodes, the document decodes and
\* `url` is Invalid.
C2_AnyUnstructuredValueIsInvalid ==
    (/\ call.op = "Object::deserialize"
     /\ call.arg.url.k \notin {"absent", "null"}
     /\ Unstructured(call.arg.url)
     /\ RestDecodes(call.arg))
    => /\ call.ret.ok
       /\ call.ret.v.url.some
       /\ call.ret.v.url.v.var = "Invalid"

\* C2 amended: when the `url` of a document is a string that is no valid
\* URL and the rest decodes, the document decodes, `url` is Invalid of
\* exactly that string and the other fields are what they decode to; when
\* `url` is not a string and matches no structured shape, the decoding of
\* the document fails.
C2_UnparsableStringIsInvalid ==
    call.op = "Object::deserialize" =>
        LET d == call.arg
        IN /\ (d.url.k = "str" /\ ~Url_parse(d.url.s).ok /\ RestDecodes(d))
              => /\ call.ret.ok
                 /\ call.ret.v.url = Some(UrlReference_Invalid(d.url.s))
                 /\ call.ret.v.id = Url_deserialize(d.id).v
                 /\ call.ret.v.entity
                        = Entity_deserialize(d.type, d.context).v
           /\ (d.url.k \notin {"absent", "null", "str"} /\ Unstructured(d.url))
              => ~call.ret.ok

\* A document whose `url` is the text "nope" was decoded.
C2_Witness ==
    /\ call.op = "Object::deserialize"
    /\ call.arg.url = JStr("nope")
    /\ call.ret.ok
    /\ call.ret.v.url = Some(UrlReference_Invalid("nope"))

\* C3 as stated: as_vec returns at least one URL for every variant other
\* than Invalid.
C3_EmptyOnlyForInvalid ==
    (call.op = "as_vec" /\ call.arg.var # "Invalid") => call.ret # <<>>

\* C3 amended: as_vec returns one URL for Url and Link, as many URLs as the
\* list holds for LinkList and UrlList, and none for Invalid; so it is empty
\* exactly for Invalid and for an empty LinkList or UrlList.
C3_AsVecLength ==
    call.op = "as_vec" =>
        LET r == call.arg
        IN /\ r.var \in {"Url", "Link"} => Len(call.ret) = 1
           /\ r.var = "LinkList" => Len(call.ret) = Len(r.links)
           /\ r.var = "UrlList" => Len(call.ret) = Len(r.urls)
           /\ r.var = "Invalid" => call.ret = <<>>
           /\ call.ret = <<>> <=>
                \/ r.var = "Invalid"
                \/ r.var = "LinkList" /\ r.links = <<>>
                \/ r.var = "UrlList" /\ r.urls = <<>>

\* as_vec was called on the LinkList decoded from the empty array.
C3_Witness ==
    /\ call.op = "as_vec"
    /\ wire = JArr(<<>>)
    /\ call.arg = UrlReference_LinkList(<<>>)
    /\ call.ret = <<>>

\* C4: an array of valid link objects, the empty one included, decodes to
\* LinkList of the links in the array's order, and as_vec of it is the
\* links' hrefs, one per link, in that order.
C4_LinkArrayIsLinkList ==
    /\ (call.op = "UrlReference::deserialize" /\ ValidLinks(call.arg))
        => call.ret = Ok(UrlReference_LinkList(
                [i \in 1..Len(call.arg.items) |->
                    Link_deserialize(call.arg.items[i]).v]))
    /\ (call.op = "as_vec" /\ ValidLinks(wire))
        => /\ call.arg.var = "LinkList"
           /\ call.ret = [i \in 1..Len(wire.items) |->
                            Url_parse(wire.items[i].href.s).v]

\* as_vec was called on the decoding of an array of two links with
\* different hrefs.
C4_Witness ==
    /\ call.op = "as_vec"
    /\ ValidLinks(wire)
    /\ Len(wire.items) = 2
    /\ call.ret = <<"https://b/x", "http://a/">>

\* C5: a string that parses as an absolute URL decodes to Url of the parsed
\* URL, not to Invalid, and any_url of it is that URL.
C5_UrlStringIsUrl ==
    /\ (call.op = "UrlReference::deserialize" /\ call.arg.k = "str"
            /\ Url_parse(call.arg.s).ok)
        => call.ret = Ok(UrlReference_Url(Url_parse(call.arg.s).v))
    /\ (call.op = "any_url" /\ wire.k = "str" /\ Url_parse(wire.s).ok)
        => /\ call.arg.var = "Url"
           /\ call.ret = Some(Url_parse(wire.s).v)

\* any_url was called on the decoding of a URL string.
C5_Witness ==
    /\ call.op = "any_url"
    /\ wire = JStr("https://b/x")
    /\ call.ret = Some("https://b/x")

\* C6: the empty string decodes to Invalid(""), as_vec of it is empty,
\* any_url of it is none, and object_url of an Object with that `url` is
\* none.
C6_EmptyStringIsInvalid ==
    /\ (call.op = "UrlReference::deserialize" /\ call.arg = JStr(""))
        => call.ret = Ok(UrlReference_Invalid(""))
    /\ (call.op = "as_vec" /\ wire = JStr("")) => call.ret = <<>>
    /\ (call.op = "any_url" /\ wire = JStr("")) => call.ret = None
    /\ (call.op = "object_url"
            /\ call.arg.url = Some(UrlReference_Invalid("")))
        => call.ret = None

\* object_url was called on an Object decoded from a document whose `url`
\* is the empty string.
C6_Witness ==
    /\ call.op = "object_url"
    /\ wire.k = "doc"
    /\ wire.url = JStr("")
    /\ call.arg.url = Some(UrlReference_Invalid(""))
    /\ call.ret = None

\* C7: decoding the encoding of an Object whose `url` is Some(LinkList(L))
\* succeeds and gives an Object whose `url` is Some(LinkList(L)) again.
C7_LinkListRoundTrip ==
    (/\ call.op = "round_trip"
     /\ src.v.url.some
     /\ src.v.url.v.var = "LinkList")
    => /\ call.ret.ok
       /\ val.o.url = src.v.url

\* An Object whose `url` is a LinkList of two different links went
\* through encoding and decoding.
C7_Witness ==
    /\ call.op = "round_trip"
    /\ src.v.url.some
    /\ src.v.url.v.var = "LinkList"
    /\ Len(src.v.url.v.links) = 2
    /\ src.v.url.v.links[1] # src.v.url.v.links[2]
    /\ val.o.url = src.v.url

\* C8: matches(pattern) is false when `to` is absent and the addressee
\* reference's matches(pattern) when it is present, whatever `cc` is.
C8_MatchesReadsTo ==
    call.op = "matches" =>
        /\ ~val.o.to.some => call.ret = FALSE
        /\ val.o.to.some
            => call.ret = CompoundActorReference_matches(val.o.to.v, call.arg)

\* matches was called with a pattern that `cc` matches, on an Object
\* without `to`.
C8_Witness ==
    /\ call.op = "matches"
    /\ ~val.o.to.some
    /\ val.o.cc.some
    /\ CompoundActorReference_matches(val.o.cc.v, call.arg)
    /\ call.ret = FALSE

\* C9: the Object of new_with_entity_type(t, id) has object_id() = id and
\* entity_type() = t, no name, url or to, and object_url() none; the Object
\* of new_with_entity(entity, id) has that entity and id and no name, url
\* or to.
C9_ConstructorsLeaveOptionalsUnset ==
    /\ call.op = "new_with_entity_type"
        => /\ Object_object_id(val.o) = call.arg[2]
           /\ Object_entity_type(val.o) = call.arg[1]
           /\ val.o.name = None /\ val.o.url = None /\ val.o.to = None
           /\ Object_object_url(val.o) = None
    /\ call.op = "new_with_entity"
        => /\ val.o.entity = call.arg[1]
           /\ Object_object_id(val.o) = call.arg[2]
           /\ val.o.name = None /\ val.o.url = None /\ val.o.to = None
           /\ Object_object_url(val.o) = None

\* new_with_entity_type("Note", "https://b/x") returned.
C9_Witness ==
    /\ call.op = "new_with_entity_type"
    /\ call.arg = <<"Note", "https://b/x">>
    /\ val.t = "Object"

\* C10: object_id() of ObjectReference::Url(u) is u, and of
\* ObjectReference::Object(o) is o.id, which is o.object_id().
C10_ReferenceObjectId ==
    call.op = "ObjectReference::object_id" =>
        /\ call.arg.var = "Url" => call.ret = call.arg.url
        /\ call.arg.var = "Object"
            => /\ call.ret = call.arg.object.id
               /\ call.ret = Object_object_id(call.arg.object)

\* object_id was called on a reference that embeds an Object whose `url`
\* is not its id.
C10_Witness ==
    /\ call.op = "ObjectReference::object_id"
    /\ call.arg.var = "Object"
    /\ Object_object_url(call.arg.object).some
    /\ Object_object_url(call.arg.object).v # call.arg.object.id
    /\ call.ret = call.arg.object.id

====
